---------------------------- MODULE Spec2Model ----------------------------
(***************************************************************************)
(* Model of place/user.py (User, Pool) and place/colors.py of pooplace.    *)
(*                                                                         *)
(* Representation of numbers.  TLC integers are 32 bits wide, Python's are *)
(* not.  A wall-clock value in seconds (time(), User.next) is the record   *)
(* Num(s, f) standing for s + f/1000 seconds; a millisecond timestamp of   *)
(* the remote service is the record Ms(d, m) standing for                  *)
(* d * 86400000 + m milliseconds.  time() is sampled at whole seconds.     *)
(***************************************************************************)
EXTENDS Integers, Sequences, FiniteSets, TLC

\* ------------------------------------------------------------------ bounds
MaxUsers == 2          \* accounts in the pool at any time
MaxWaits == 1          \* waits (31 days and a second each) after start
MaxStored == 3         \* accounts in the pool of the store at any time
MaxDrift == 1          \* milliseconds the clock may advance during one call

Callers == {"w1", "w2"}            \* coroutines that may call into the pool
Workers == {"w1"}                  \* the single logical worker
Names == {"u/ann", "u/bob"}        \* display names
Paths == {"pool.json", "alt.json"} \* storage paths
Colors == {2, 5}                   \* a palette value and a gap of the palette

\* --------------------------------------------------------------- constants
SecondsPerDay == 60 * 60 * 24
MsPerSecond == 1000                               \* user.py:120, 128
TooLong == 60 * 60 * 24 * 31                      \* user.py:121, 129
StartTime == 19083 * SecondsPerDay                \* 2022-04-01T00:00:00Z

\* RedditColor's values (colors.py:41-72)
RedditColor ==
    {1, 2, 3, 4, 6, 7, 8, 9, 10, 12, 13, 14, 15, 16, 18, 19, 22, 23, 24, 25,
     27, 29, 30, 31}

\* ------------------------------------------------------------ Python values
None == "None"                     \* Python's None where a str is expected
NoneNum == [t |-> "none"]          \* Python's None where a number is expected
Num(s, f) == [t |-> "num", s |-> s, f |-> f]
Ms(d, m) == [d |-> d, m |-> m]
MsOfSeconds(s, f) ==
    Ms(s \div SecondsPerDay, (s % SecondsPerDay) * MsPerSecond + f)

\* T // 1000: milliseconds to whole seconds
FloorDiv1000(T) == Num(T.d * SecondsPerDay + T.m \div MsPerSecond, 0)

\* T / 1000 (user.py:120, 128): milliseconds to seconds, true division
Div1000(T) ==
    Num(T.d * SecondsPerDay + T.m \div MsPerSecond, T.m % MsPerSecond)

\* truthiness of an Optional[float] / Optional[str]
TruthyNum(n) == n.t = "num" /\ ~(n.s = 0 /\ n.f = 0)
TruthyStr(s) == s # None /\ s # ""

\* a - t for a seconds value a and a whole second t
Minus(a, t) == Num(a.s - t, a.f)
\* a - b for seconds values a and b
MinusNum(a, b) ==
    IF a.f >= b.f THEN Num(a.s - b.s, a.f - b.f)
    ELSE Num(a.s - b.s - 1, a.f - b.f + MsPerSecond)
LeZero(a) == a.s < 0 \/ (a.s = 0 /\ a.f = 0)
GtSeconds(a, c) == a.s > c \/ (a.s = c /\ a.f > 0)
Less(a, b) == a.s < b.s \/ (a.s = b.s /\ a.f < b.f)

\* ------------------------------------------------------------------- state
VARIABLES
    now,        \* time(), whole seconds
    users,      \* Pool.users: sequence of references to User objects
    heap,       \* reference -> User object (or Free)
    pc,         \* per caller: the await its coroutine is suspended at
    requests,   \* HTTP requests in flight: [caller, user, kind]
    ret,        \* per caller: what its last call returned or raised
    disk,       \* path -> stored document (or NoFile)
    storage     \* the storage argument the pool was constructed with

vars == <<now, users, heap, pc, requests, ret, disk, storage>>

Refs == 1 .. (MaxUsers + Cardinality(Callers))
Free == [free |-> TRUE]
NoFile == <<[nofile |-> TRUE]>>

\* User.__init__ (user.py:31-44); the id is decided by the caller of NewUser
NewUser(name, token, refresh, next, id) ==
    [id |-> id, name |-> name, token |-> token, refresh |-> refresh, next |-> next]

\* User.cooldown (user.py:103-105), at time t
Cooldown(u, t) == Minus(IF TruthyNum(u.next) THEN u.next ELSE Num(0, 0), t)

\* User.cooldown (user.py:103-105) when its time() returns the seconds value t
CooldownAt(u, t) == MinusNum(IF TruthyNum(u.next) THEN u.next ELSE Num(0, 0), t)

\* what time() returns on each of the n times one call reads it, the call
\* starting at second t: the clock does not go back
ClockReads(t, n) ==
    {ts \in [1 .. n -> {Num(t, e) : e \in 0 .. MaxDrift}] :
        \A i \in 1 .. (n - 1) : ts[i].f <= ts[i + 1].f}

\* the User objects of the pool, in collection order
PoolUsers == [i \in 1 .. Len(users) |-> heap[users[i]]]

Range(f) == {f[x] : x \in DOMAIN f}

\* objects nothing refers to any more are reclaimed
Collect(h, us, reqs) ==
    [r \in Refs |-> IF r \in Range(us) \cup {q.user : q \in reqs} THEN h[r] ELSE Free]

FreeRef(h) == CHOOSE r \in Refs : h[r] = Free /\ \A q \in Refs : h[q] = Free => r <= q

\* ------------------------------------------------------------ what calls end in
Pending == [kind |-> "pending"]
Return(v) == [kind |-> "return", value |-> v]
Raise(e) == [kind |-> "raise", exc |-> e]
\* UnauthorizedError.__init__ (user.py:16-20)
UnauthorizedError(message, refreshable) ==
    [kind |-> "raise", exc |-> "UnauthorizedError", message |-> message,
     refreshable |-> refreshable]
\* the default of UnauthorizedError's refreshable parameter (user.py:18)
RefreshableDefault == TRUE

NoCall == [op |-> "none"]
NotCalled == [kind |-> "not called"]
PutCall(user, pool) == [op |-> "Pool.put", user |-> user, pool |-> pool]
RefreshCall(out) == [op |-> "refresh_token", out |-> out]

\* ------------------------------------------------------- set-pixel responses
NoTs == [has |-> FALSE]
Ts(T) == [has |-> TRUE, ts |-> T]

\* timestamps the service may send at time t: half a second ahead, exactly
\* 31 days ahead, one millisecond more than 31 days ahead
Timestamps(t) ==
    {MsOfSeconds(t, MsPerSecond \div 2), MsOfSeconds(t + TooLong, 0),
     MsOfSeconds(t + TooLong, 1)}

Entries(t) == {NoTs} \cup {Ts(T) : T \in Timestamps(t)}
EntryLists(t, n) == [1 .. n -> Entries(t)]

\* answ (user.py:111): whether it has the explicit UNAUTHORIZED shape, the
\* entries of answ["data"]["act"]["data"] and the entries of answ["errors"],
\* each entry with or without its timestamp key; two entries in all
Answers(t) ==
    UNION {[unauthorized : BOOLEAN, data : EntryLists(t, n[1]), errors : EntryLists(t, n[2])] :
              n \in {<<0, 0>>, <<1, 0>>, <<0, 1>>, <<2, 0>>, <<1, 1>>, <<0, 2>>}}

\* index of the first entry that carries a timestamp, 0 if none does
RECURSIVE FirstTsFrom(_, _)
FirstTsFrom(entries, i) ==
    IF i > Len(entries) THEN 0
    ELSE IF entries[i].has THEN i
    ELSE FirstTsFrom(entries, i + 1)
FirstTs(entries) == FirstTsFrom(entries, 1)

\* a User.put that judges the cooldown before it records it
StampAfterCheck(u, T, t, result) ==
    IF GtSeconds(Minus(Div1000(T), t), TooLong)
    THEN [user |-> u, out |-> UnauthorizedError("Rate limited: cooldown too long", FALSE)]
    ELSE [user |-> [u EXCEPT !.next = Div1000(T)], out |-> Return(result)]

\* user.py:120-123 and 128-131: record the cooldown, then judge it
Stamp(u, T, t, result) ==
    LET v == [u EXCEPT !.next = Div1000(T)]
    IN  [user |-> v,
         out |-> IF TruthyNum(v.next) /\ GtSeconds(Minus(v.next, t), TooLong)
                 THEN UnauthorizedError("Rate limited: cooldown too long", FALSE)
                 ELSE Return(result)]

\* User.put from the response on (user.py:113-131), at time t
UserPut(u, answ, t) ==
    IF answ.unauthorized
    THEN [user |-> u, out |-> UnauthorizedError("answ", RefreshableDefault)]
    ELSE IF FirstTs(answ.data) # 0
    THEN Stamp(u, answ.data[FirstTs(answ.data)].ts, t, "True")
    ELSE IF FirstTs(answ.errors) # 0
    THEN Stamp(u, answ.errors[FirstTs(answ.errors)].ts, t, "False")
    ELSE [user |-> u, out |-> Return("None")]

\* ------------------------------------------------------------------- Pool
\* a scan that prefers the eligible user with the smallest cooldown
MostEligible(us, t) ==
    IF \A i \in 1 .. Len(us) : ~LeZero(Cooldown(us[i], t)) THEN 0
    ELSE CHOOSE i \in 1 .. Len(us) :
            /\ LeZero(Cooldown(us[i], t))
            /\ \A j \in 1 .. Len(us) :
                  /\ ~Less(Cooldown(us[j], t), Cooldown(us[i], t))
                  /\ (j < i => Less(Cooldown(us[i], t), Cooldown(us[j], t)))

\* a scan that takes the first user without looking at its cooldown
FirstUser(us, t) == IF Len(us) > 0 THEN 1 ELSE 0

\* Pool.put's scan (user.py:190-191): index of the first user with
\* cooldown <= 0 at time t, 0 if there is none
RECURSIVE ScanFrom(_, _, _)
ScanFrom(us, i, t) ==
    IF i > Len(us) THEN 0
    ELSE IF LeZero(Cooldown(us[i], t)) THEN i
    ELSE ScanFrom(us, i + 1, t)
FirstEligible(us, t) == ScanFrom(us, 1, t)

\* a Pool.put that catches what User.put raises
PoolPutSwallows(out) == Return("True")

\* a Pool.put that returns what User.put returned
PoolPutForwards(out) == out

\* Pool.put's own result, given how User.put ended (user.py:192-193)
PoolPutResult(out) == IF out.kind = "raise" THEN out ELSE Return("True")

\* Pool.any (user.py:162-164)
PoolAny(us, t) == \E i \in 1 .. Len(us) : LeZero(Cooldown(us[i], t))

\* a Pool.ready that tests cooldown < 0
PoolReadyStrict(us, t) ==
    Cardinality({i \in 1 .. Len(us) :
                    LeZero(Cooldown(us[i], t)) /\ Cooldown(us[i], t) # Num(0, 0)})

\* Pool.ready (user.py:166-169)
PoolReady(us, t) == Cardinality({i \in 1 .. Len(us) : LeZero(Cooldown(us[i], t))})

\* usr = None (user.py:174)
NoUser == 0

\* Pool.best's loop (user.py:175-178) from the i-th user on: usr and cd so
\* far, ts[k] what the next reading of time() returns.  Each u.cooldown
\* reads the clock: none in the test while cd is None, one in the test
\* otherwise, and one more in the assignment to cd
RECURSIVE BestFrom(_, _, _, _, _, _)
BestFrom(us, i, usr, cd, ts, k) ==
    IF i > Len(us) THEN usr
    ELSE IF usr = NoUser
    THEN BestFrom(us, i + 1, i, CooldownAt(us[i], ts[k]), ts, k + 1)
    ELSE IF Less(CooldownAt(us[i], ts[k]), cd)
    THEN BestFrom(us, i + 1, i, CooldownAt(us[i], ts[k + 1]), ts, k + 2)
    ELSE BestFrom(us, i + 1, usr, cd, ts, k + 1)

\* Pool.best (user.py:171-179): index of the returned user, NoUser for
\* None, when time() returns ts[1], ts[2], ...
PoolBest(us, ts) == BestFrom(us, 1, NoUser, NoneNum, ts, 1)

\* ------------------------------------------------------------ persistence
Absent == "<absent>"
AbsentNum == [t |-> "absent"]
NullNum == [t |-> "str", v |-> "null"]

\* User.as_dict (user.py:46-53)
AsDict(u) ==
    [id |-> u.id, name |-> u.name, token |-> u.token,
     refresh |-> IF TruthyStr(u.refresh) THEN u.refresh ELSE None,
     next |-> IF TruthyNum(u.next) THEN u.next ELSE NoneNum]

\* Pool.serialize (user.py:158-160): the document written
Document(us) == [i \in 1 .. Len(us) |-> AsDict(us[i])]

\* the path Pool.serialize writes when called without one (user.py:158)
DefaultStorage == "pool.json"

\* a Pool.__init__ that takes the fields as they are stored
FromDictKeepsNull(el) ==
    NewUser(el.name, el.token,
            IF el.refresh # Absent THEN el.refresh ELSE None,
            IF el.next # AbsentNum THEN el.next ELSE NoneNum,
            IF el.id # Absent THEN el.id ELSE None)

\* one element of the stored list, as Pool.__init__ reads it (user.py:143-149);
\* the id may still be None
FromDict(el) ==
    NewUser(el.name, el.token,
            IF el.refresh # Absent /\ el.refresh # "null" THEN el.refresh ELSE None,
            IF el.next # AbsentNum /\ el.next # NullNum THEN el.next ELSE NoneNum,
            IF el.id # Absent THEN el.id ELSE None)

\* str(uuid4()) (user.py:39): an id found nowhere yet
UuidSeq ==
    <<"uuid-01", "uuid-02", "uuid-03", "uuid-04", "uuid-05", "uuid-06",
      "uuid-07", "uuid-08", "uuid-09", "uuid-10", "uuid-11", "uuid-12",
      "uuid-13", "uuid-14", "uuid-15", "uuid-16", "uuid-17", "uuid-18",
      "uuid-19", "uuid-20">>
Uuid4(used) ==
    UuidSeq[CHOOSE k \in DOMAIN UuidSeq :
                /\ UuidSeq[k] \notin used
                /\ \A j \in DOMAIN UuidSeq : UuidSeq[j] \notin used => k <= j]

\* self.id = id or str(uuid4()) (user.py:39)
WithId(u, used) == IF TruthyStr(u.id) THEN u ELSE [u EXCEPT !.id = Uuid4(used)]

\* Pool.__init__'s loop (user.py:141-150): the users built from a document,
\* in order, each uuid differing from the ids built or stored so far
RECURSIVE LoadFrom(_, _, _)
LoadFrom(doc, i, used) ==
    IF i > Len(doc) THEN <<>>
    ELSE LET u == WithId(FromDict(doc[i]), used)
         IN  <<u>> \o LoadFrom(doc, i + 1, used \cup {u.id})
StoredIds(doc) == IF doc = NoFile THEN {} ELSE {doc[i].id : i \in DOMAIN doc}
Load(doc) == IF doc = NoFile THEN <<>> ELSE LoadFrom(doc, 1, StoredIds(doc))


\* ------------------------------------------------------------ User.refresh
\* a test that forgets the "null" sentinel
HasNoRefreshTokenNone(u) == ~TruthyStr(u.refresh)

\* the test of user.py:69
HasNoRefreshToken(u) == ~TruthyStr(u.refresh) \/ u.refresh = "null"

\* ----------------------------------------------------------------- inputs
Tokens == {"t0"}                   \* access tokens accounts start with
NewTokens == {"t1"}                \* access tokens the service hands out
ServiceNames == {"u/ann"}          \* display names the service reports
NameSeq == <<"u/ann", "u/bob">>
StoredRecords(i) ==
    [id : {Absent}, name : {NameSeq[((i - 1) % Len(NameSeq)) + 1]}, token : Tokens,
     refresh : {"null", "r0"}, next : {NullNum}]
Documents ==
    UNION {{d \in [1 .. n -> UNION {StoredRecords(i) : i \in 1 .. n}] :
               \A i \in 1 .. n : d[i] \in StoredRecords(i)} : n \in 0 .. MaxUsers}
AddedUsers ==
    {NewUser(n, k, r, NoneNum, i) :
        n \in Names, k \in Tokens, r \in {None, "null", "r0"}, i \in {None, "id1"}}

\* a pool: its list, the objects and the stored documents
PoolState(us, h, d) == [users |-> us, heap |-> h, disk |-> d]

IdsInUse(p) ==
    {p.heap[r].id : r \in {q \in Refs : p.heap[q] # Free}}
        \cup UNION {StoredIds(p.disk[f]) : f \in Paths}

\* Pool(): the pool built from the document stored at DefaultStorage
\* (user.py:136-150)
Loaded(doc) ==
    LET us == Load(doc)
    IN  PoolState([i \in 1 .. Len(us) |-> i],
                  [r \in Refs |-> IF r <= Len(us) THEN us[r] ELSE Free],
                  [f \in Paths |-> IF f = DefaultStorage THEN doc ELSE NoFile])

\* Pool.add_user (user.py:181-183) on the pool p with the User u just built
AddUserTo(p, u) ==
    LET r == FreeRef(p.heap)
        h == [p.heap EXCEPT ![r] = WithId(u, IdsInUse(p))]
        us == Append(p.users, r)
    IN  PoolState(us, h,
                  [p.disk EXCEPT ![DefaultStorage] =
                      Document([i \in 1 .. Len(us) |-> h[us[i]]])])

\* an account of the kind the "null" test of user.py:69 is there for: built
\* with the literal "null" for its refresh token
LegacyUser(i) == NewUser(NameSeq[((i - 1) % Len(NameSeq)) + 1], "t0", "null", NoneNum, None)

\* the pool p after k such accounts have been added to it
RECURSIVE WithLegacyUsers(_, _)
WithLegacyUsers(p, k) ==
    IF k = 0 THEN p
    ELSE WithLegacyUsers(AddUserTo(p, LegacyUser(Len(p.users) + 1)), k - 1)

Request(c, r, kind) == [caller |-> c, user |-> r, kind |-> kind]

\* a Pool.put that starts User.put and returns without awaiting it
NotAwaitingPut == "idle"

\* the await of user.py:192 and of user.py:110-111: Pool.put is suspended
\* until User.put, and so its request, has ended
AwaitingPut == "put"

\* -------------------------------------------------------------------- Init
\* Pool() over some stored document, and the accounts added to it since
Init ==
    /\ now = StartTime
    /\ \E doc \in Documents \cup {NoFile}, k \in 0 .. MaxUsers :
          /\ Len(Loaded(doc).users) + k <= MaxUsers
          /\ LET p == WithLegacyUsers(Loaded(doc), k)
             IN  users = p.users /\ heap = p.heap /\ disk = p.disk
    /\ storage = DefaultStorage
    /\ pc = [c \in Callers |-> "idle"]
    /\ requests = {}
    /\ ret = [c \in Callers |-> NoCall]

\* ----------------------------------------------------------------- actions
\* 31 days and a second pass
Wait ==
    /\ now < StartTime + MaxWaits * (TooLong + 1)
    /\ now' = now + TooLong + 1
    /\ UNCHANGED <<users, heap, pc, requests, ret, disk, storage>>

\* a Pool.put whose loop goes on after the first user with cooldown <= 0
PoolPutCallAll(c, color) ==
    /\ pc[c] = "idle"
    /\ LET rs == {users[i] : i \in {j \in 1 .. Len(users) :
                                        LeZero(Cooldown(heap[users[j]], now))}}
       IN  IF rs = {}
           THEN /\ ret' = [ret EXCEPT ![c] = PutCall(NotCalled, Return("False"))]
                /\ UNCHANGED <<pc, requests>>
           ELSE /\ ret' = [ret EXCEPT ![c] = PutCall(Pending, Pending)]
                /\ requests' = requests \cup {Request(c, r, "set_pixel") : r \in rs}
                /\ pc' = [pc EXCEPT ![c] = AwaitingPut]
    /\ UNCHANGED <<now, users, heap, disk, storage>>

\* Pool.put up to the request of User.put (user.py:189-192, 107-110)
PoolPutCall(c, color) ==
    /\ pc[c] = "idle"
    /\ LET i == FirstEligible(PoolUsers, now)
       IN  IF i = 0
           THEN /\ ret' = [ret EXCEPT ![c] = PutCall(NotCalled, Return("False"))]
                /\ UNCHANGED <<pc, requests>>
           ELSE IF color \notin RedditColor
           THEN /\ ret' = [ret EXCEPT ![c] =
                             PutCall(Raise("ValueError"), PoolPutResult(Raise("ValueError")))]
                /\ UNCHANGED <<pc, requests>>
           ELSE /\ ret' = [ret EXCEPT ![c] = PutCall(Pending, Pending)]
                /\ requests' = requests \cup {Request(c, users[i], "set_pixel")}
                /\ pc' = [pc EXCEPT ![c] = AwaitingPut]
    /\ UNCHANGED <<now, users, heap, disk, storage>>

\* the response arrives; User.put and Pool.put finish (user.py:111-131, 192-193)
PutResponse(c, r, answ) ==
    /\ Request(c, r, "set_pixel") \in requests
    /\ LET e == UserPut(heap[r], answ, now)
           reqs == requests \ {Request(c, r, "set_pixel")}
       IN  /\ heap' = Collect([heap EXCEPT ![r] = e.user], users, reqs)
           /\ requests' = reqs
           /\ ret' = [ret EXCEPT ![c] = PutCall(e.out, PoolPutResult(e.out))]
    /\ pc' = [pc EXCEPT ![c] = "idle"]
    /\ UNCHANGED <<now, users, disk, storage>>

\* some response to the set-pixel request of c for r arrives
SetPixelResponse(c, r) ==
    /\ Request(c, r, "set_pixel") \in requests
    /\ \E answ \in Answers(now) : PutResponse(c, r, answ)

\* User.refresh_token up to its request (user.py:68-82)
RefreshTokenCall(c, r) ==
    /\ pc[c] = "idle"
    /\ r \in Range(users)
    /\ IF HasNoRefreshToken(heap[r])
       THEN /\ ret' = [ret EXCEPT ![c] =
                         RefreshCall(UnauthorizedError("No refresh token", RefreshableDefault))]
            /\ UNCHANGED <<pc, requests>>
       ELSE /\ ret' = [ret EXCEPT ![c] = RefreshCall(Pending)]
            /\ requests' = requests \cup {Request(c, r, "access_token")}
            /\ pc' = [pc EXCEPT ![c] = "refresh"]
    /\ UNCHANGED <<now, users, heap, disk, storage>>

\* the token response arrives (user.py:83-85) and get_username sends its
\* request (user.py:59-63); token is Absent when the response has no
\* access_token
TokenResponse(c, r, token) ==
    /\ Request(c, r, "access_token") \in requests
    /\ IF token = Absent
       THEN LET reqs == requests \ {Request(c, r, "access_token")}
            IN  /\ ret' = [ret EXCEPT ![c] = RefreshCall(Raise("KeyError"))]
                /\ pc' = [pc EXCEPT ![c] = "idle"]
                /\ requests' = reqs
                /\ heap' = Collect(heap, users, reqs)
       ELSE /\ heap' = [heap EXCEPT ![r].token = token]
            /\ pc' = [pc EXCEPT ![c] = "username"]
            /\ requests' =
                 (requests \ {Request(c, r, "access_token")}) \cup {Request(c, r, "me")}
            /\ ret' = ret
    /\ UNCHANGED <<now, users, disk, storage>>

\* get_username's response arrives and refresh_token ends (user.py:64-66,
\* 86-87); name is Absent when the response has no display name
UsernameResponse(c, r, name) ==
    /\ Request(c, r, "me") \in requests
    /\ LET reqs == requests \ {Request(c, r, "me")}
       IN  /\ requests' = reqs
           /\ IF name = Absent
              THEN /\ ret' = [ret EXCEPT ![c] = RefreshCall(Raise("KeyError"))]
                   /\ heap' = Collect(heap, users, reqs)
              ELSE /\ heap' = Collect([heap EXCEPT ![r].name = name], users, reqs)
                   /\ ret' = [ret EXCEPT ![c] = RefreshCall(Return("None"))]
    /\ pc' = [pc EXCEPT ![c] = "idle"]
    /\ UNCHANGED <<now, users, disk, storage>>

\* Pool.add_user (user.py:181-183) with a User just built
AddUser(u) ==
    /\ Len(users) < MaxStored
    /\ LET p == AddUserTo(PoolState(users, heap, disk), u)
       IN  users' = p.users /\ heap' = p.heap /\ disk' = p.disk
    /\ UNCHANGED <<now, pc, requests, ret, storage>>

\* a remove_user that drops the first match only
RemainingButFirst(us, h, n) ==
    IF \A i \in 1 .. Len(us) : h[us[i]].name # n THEN us
    ELSE LET k == CHOOSE i \in 1 .. Len(us) :
                      h[us[i]].name = n /\ \A j \in 1 .. (i - 1) : h[us[j]].name # n
         IN  [i \in 1 .. (Len(us) - 1) |-> IF i < k THEN us[i] ELSE us[i + 1]]

\* user.py:186: the users whose name is not n, in order
Remaining(us, h, n) == SelectSeq(us, LAMBDA r : h[r].name # n)

\* Pool.remove_user (user.py:185-187)
RemoveUser(n) ==
    /\ LET us == Remaining(users, heap, n)
       IN  /\ users' = us
           /\ heap' = Collect(heap, us, requests)
           /\ disk' = [disk EXCEPT ![DefaultStorage] =
                          Document([i \in 1 .. Len(us) |-> heap[us[i]]])]
    /\ UNCHANGED <<now, pc, requests, ret, storage>>

\* what the coroutines cs may do next
Calls(cs) ==
    \/ \E c \in cs, color \in Colors : PoolPutCall(c, color)
    \/ \E c \in cs, r \in Refs : SetPixelResponse(c, r)
    \/ \E c \in cs, r \in Refs : RefreshTokenCall(c, r)
    \/ \E c \in cs, r \in Refs, token \in NewTokens \cup {Absent} :
          TokenResponse(c, r, token)
    \/ \E c \in cs, r \in Refs, name \in ServiceNames \cup {Absent} :
          UsernameResponse(c, r, name)

\* the scheduling core driven by a single logical worker
Next == Wait \/ Calls(Workers)
Spec == Init /\ [][Next]_vars

\* the scheduling core with callers that overlap
NextOverlap == Wait \/ Calls(Callers)
SpecOverlap == Init /\ [][NextOverlap]_vars

\* ------------------------------------------------------------ the palette
\* _color_map (colors.py:6-24): the entry of 1 is the empty tuple
ColorMap ==
    [v \in {1, 2, 3, 4, 6, 8, 12, 13, 14, 18, 19, 23, 25, 27, 29, 30, 31} |->
        CASE v = 1 -> <<>>
          [] v = 2 -> <<255, 69, 0>>
          [] v = 3 -> <<255, 168, 0>>
          [] v = 4 -> <<255, 214, 53>>
          [] v = 6 -> <<0, 163, 104>>
          [] v = 8 -> <<126, 237, 86>>
          [] v = 12 -> <<36, 80, 164>>
          [] v = 13 -> <<54, 144, 234>>
          [] v = 14 -> <<81, 233, 244>>
          [] v = 18 -> <<129, 30, 159>>
          [] v = 19 -> <<180, 74, 192>>
          [] v = 23 -> <<255, 153, 170>>
          [] v = 25 -> <<156, 105, 38>>
          [] v = 27 -> <<0, 0, 0>>
          [] v = 29 -> <<137, 141, 144>>
          [] v = 30 -> <<212, 215, 217>>
          [] v = 31 -> <<255, 255, 255>>]

\* the members of RedditColor in the order of their definition
\* (colors.py:42-72), which is the order "for color in cls" takes them in
RedditColorSeq ==
    <<1, 2, 3, 4, 6, 7, 8, 9, 10, 12, 13, 14, 15, 16, 18, 19, 22, 23, 24, 25,
      27, 29, 30, 31>>

\* _FLT (colors.py:26)
FLT == 255

\* a & b and a | b on integers >= 0
RECURSIVE BitAnd(_, _)
BitAnd(a, b) ==
    IF a = 0 \/ b = 0 THEN 0
    ELSE (a % 2) * (b % 2) + 2 * BitAnd(a \div 2, b \div 2)
RECURSIVE BitOr(_, _)
BitOr(a, b) ==
    IF a = 0 THEN b
    ELSE IF b = 0 THEN a
    ELSE (IF a % 2 = 1 \/ b % 2 = 1 THEN 1 ELSE 0) + 2 * BitOr(a \div 2, b \div 2)
\* a << n and a >> n
ShiftLeft(a, n) == a * 2 ^ n
ShiftRight(a, n) == a \div 2 ^ n

\* unpack (colors.py:28-32)
Unpack(color) ==
    <<BitAnd(color, FLT),
      BitAnd(ShiftRight(color, 8), FLT),
      BitAnd(ShiftRight(color, 16), FLT)>>

\* a pack that puts red in the high byte and blue in the low byte
PackRedHigh(r, g, b) ==
    BitOr(BitOr(BitAnd(FLT, b), ShiftLeft(BitAnd(FLT, g), 8)),
          ShiftLeft(BitAnd(FLT, r), 16))

\* pack (colors.py:34-39)
Pack(r, g, b) ==
    BitOr(BitOr(BitAnd(FLT, r), ShiftLeft(BitAnd(FLT, g), 8)),
          ShiftLeft(BitAnd(FLT, b), 16))

\* RedditColor.to_tuple (colors.py:86-87) of the member with value v
ToTuple(v) ==
    IF v \in DOMAIN ColorMap THEN Return(ColorMap[v]) ELSE Raise("KeyError")

\* (r - cr) ** 2 + (g - cg) ** 2 + (b - cb) ** 2 (colors.py:80); math.sqrt
\* of it is left out, as it keeps the order of these integers
Distance2(r, g, b, t) ==
    (r - t[1]) * (r - t[1]) + (g - t[2]) * (g - t[2]) + (b - t[3]) * (b - t[3])

\* RedditColor.closest's loop (colors.py:78-83) from the i-th member on;
\* closest = 0 stands for closest_color = color_distance = None
RECURSIVE ClosestFrom(_, _, _, _, _, _)
ClosestFrom(i, closest, distance, r, g, b) ==
    IF i > Len(RedditColorSeq) THEN Return(closest)
    ELSE LET t == ToTuple(RedditColorSeq[i])
         IN  IF t.kind = "raise" THEN t
             ELSE IF Len(t.value) # 3 THEN Raise("ValueError")
             ELSE IF closest = 0 \/ Distance2(r, g, b, t.value) < distance
             THEN ClosestFrom(i + 1, RedditColorSeq[i], Distance2(r, g, b, t.value), r, g, b)
             ELSE ClosestFrom(i + 1, closest, distance, r, g, b)

\* RedditColor.closest (colors.py:74-84)
Closest(r, g, b) == ClosestFrom(1, 0, 0, r, g, b)

\* ------------------------------------------------------------- the store
\* Users the operator builds (user.py:31-44): with and without an id of the
\* operator's choosing, under the same and under different names, with
\* None, the "null" literal and the empty string for the refresh token,
\* with None, 0 and a time for next
StoreUsers ==
    {NewUser("u/ann", "t0", None, NoneNum, None),
     NewUser("u/bob", "t0", "null", Num(0, 0), "id1"),
     NewUser("u/ann", "t0", "", Num(StartTime + 10, 0), "id1")}

\* documents found in storage at the start
StoreDocuments == {d \in Documents : Len(d) <= 1} \cup {NoFile}

\* Pool(storage=path) (user.py:136-150) over the stored documents d
Constructed(d, path) ==
    LET us == Load(d[path])
    IN  PoolState([i \in 1 .. Len(us) |-> i],
                  [r \in Refs |-> IF r <= Len(us) THEN us[r] ELSE Free],
                  d)

InitStore ==
    /\ now = StartTime
    /\ \E d \in [Paths -> StoreDocuments], path \in Paths :
          LET p == Constructed(d, path)
          IN  users = p.users /\ heap = p.heap /\ disk = p.disk /\ storage = path
    /\ pc = [c \in Callers |-> "idle"]
    /\ requests = {}
    /\ ret = [c \in Callers |-> NoCall]

\* the process starts again: Pool(storage=path) (user.py:136-150)
Construct(path) ==
    /\ LET p == Constructed(disk, path)
       IN  users' = p.users /\ heap' = p.heap
    /\ storage' = path
    /\ UNCHANGED <<now, pc, requests, ret, disk>>

\* Pool.serialize(path) (user.py:158-160)
Serialize(path) ==
    /\ disk' = [disk EXCEPT ![path] = Document(PoolUsers)]
    /\ UNCHANGED <<now, users, heap, pc, requests, ret, storage>>

\* the pool as a store of accounts
NextStore ==
    \/ \E path \in Paths : Construct(path)
    \/ \E path \in Paths : Serialize(path)
    \/ \E u \in StoreUsers : AddUser(u)
    \/ \E n \in Names : RemoveUser(n)
SpecStore == InitStore /\ [][NextStore]_vars

\* ----------------------------------------------------------- the queries
\* Users by cooldown at StartTime: none recorded, -5, 10 and 0 seconds
QueryUsers ==
    {NewUser("u/ann", "t0", None, NoneNum, None),
     NewUser("u/bob", "t0", None, Num(StartTime - 5, 0), None),
     NewUser("u/ann", "t0", None, Num(StartTime + 10, 0), None),
     NewUser("u/bob", "t0", None, Num(StartTime, 0), None)}

\* the pool p after the users us have been added to it, in order
RECURSIVE WithUsers(_, _)
WithUsers(p, us) ==
    IF us = <<>> THEN p ELSE WithUsers(AddUserTo(p, Head(us)), Tail(us))

\* a new pool to which some users have been added
InitQuery ==
    /\ now = StartTime
    /\ \E n \in 0 .. MaxStored : \E us \in [1 .. n -> QueryUsers] :
          LET p == WithUsers(Loaded(NoFile), us)
          IN  users = p.users /\ heap = p.heap /\ disk = p.disk
    /\ storage = DefaultStorage
    /\ pc = [c \in Callers |-> "idle"]
    /\ requests = {}
    /\ ret = [c \in Callers |-> NoCall]

AnyCall(out) == [op |-> "Pool.any", out |-> out]
ReadyCall(n) == [op |-> "Pool.ready", out |-> [kind |-> "return", count |-> n]]
BestCall(i) == [op |-> "Pool.best", out |-> [kind |-> "return", index |-> i]]

\* Pool.any (user.py:162-164)
PoolAnyCall(c) ==
    /\ ret' = [ret EXCEPT ![c] =
                  AnyCall(Return(IF PoolAny(PoolUsers, now) THEN "True" ELSE "False"))]
    /\ UNCHANGED <<now, users, heap, pc, requests, disk, storage>>

\* Pool.ready (user.py:166-169)
PoolReadyCall(c) ==
    /\ ret' = [ret EXCEPT ![c] = ReadyCall(PoolReady(PoolUsers, now))]
    /\ UNCHANGED <<now, users, heap, pc, requests, disk, storage>>

\* Pool.best (user.py:171-179) when time() returns ts[1], ts[2], ...
BestReturns(c, ts) ==
    /\ ret' = [ret EXCEPT ![c] = BestCall(PoolBest(PoolUsers, ts))]
    /\ UNCHANGED <<now, users, heap, pc, requests, disk, storage>>

\* Pool.best (user.py:171-179), whatever the clock reads
PoolBestCall(c) == \E ts \in ClockReads(now, 2 * Len(users)) : BestReturns(c, ts)

\* the pool as the single worker queries it
NextQuery ==
    \/ Wait
    \/ \E c \in Workers : PoolAnyCall(c)
    \/ \E c \in Workers : PoolReadyCall(c)
    \/ \E c \in Workers : PoolBestCall(c)
SpecQuery == InitQuery /\ [][NextQuery]_vars

\* ----------------------------------------------------- the palette's calls
\* channel values passed in: the ends and the middle of 0 .. 255, and one
\* beyond
Channels == {0, 1, 127, 128, 255, 261}

ClosestCall(rgb, out) == [op |-> "closest", args |-> rgb, out |-> out]
PackCall(rgb, v) == [op |-> "pack", args |-> rgb, out |-> [kind |-> "return", packed |-> v]]
UnpackCall(v, rgb) == [op |-> "unpack", args |-> <<v>>, out |-> [kind |-> "return", rgb |-> rgb]]

\* a process that has built no account and only uses the palette
InitColors ==
    /\ now = StartTime
    /\ LET p == Loaded(NoFile)
       IN  users = p.users /\ heap = p.heap /\ disk = p.disk
    /\ storage = DefaultStorage
    /\ pc = [c \in Callers |-> "idle"]
    /\ requests = {}
    /\ ret = [c \in Callers |-> NoCall]

\* RedditColor.closest(r, g, b) (colors.py:74-84)
CallClosest(c, r, g, b) ==
    /\ ret' = [ret EXCEPT ![c] = ClosestCall(<<r, g, b>>, Closest(r, g, b))]
    /\ UNCHANGED <<now, users, heap, pc, requests, disk, storage>>

\* pack(r, g, b) (colors.py:34-39)
CallPack(c, r, g, b) ==
    /\ ret' = [ret EXCEPT ![c] = PackCall(<<r, g, b>>, Pack(r, g, b))]
    /\ UNCHANGED <<now, users, heap, pc, requests, disk, storage>>

\* unpack (colors.py:28-32) of what pack has just returned
CallUnpack(c) ==
    /\ ret[c].op = "pack"
    /\ ret' = [ret EXCEPT ![c] = UnpackCall(ret[c].out.packed, Unpack(ret[c].out.packed))]
    /\ UNCHANGED <<now, users, heap, pc, requests, disk, storage>>

NextColors ==
    \/ \E c \in Workers, r, g, b \in Channels : CallClosest(c, r, g, b)
    \/ \E c \in Workers, r, g, b \in Channels : CallPack(c, r, g, b)
    \/ \E c \in Workers : CallUnpack(c)
SpecColors == InitColors /\ [][NextColors]_vars


\* ======================================================================
\* Properties
\* ======================================================================

\* cooldownRemaining() <= 0 for the user object u at time t
Eligible(u, t) ==
    LET n == IF u.next.t = "num" /\ ~(u.next.s = 0 /\ u.next.f = 0)
             THEN u.next ELSE [s |-> 0, f |-> 0]
    IN  n.s < t \/ (n.s = t /\ n.f = 0)

\* the seconds value n is the millisecond timestamp T divided by 1000
IsSecondsOf(n, T) ==
    /\ n.t = "num"
    /\ n.f \in 0 .. 999
    /\ n.s \div 86400 = T.d
    /\ (n.s % 86400) * 1000 + n.f = T.m

\* the millisecond timestamp T is more than 31 days after second t
MoreThan31Days(T, t) ==
    LET lim == t + 31 * 86400
    IN  \/ T.d > lim \div 86400
        \/ T.d = lim \div 86400 /\ T.m > (lim % 86400) * 1000

\* the timestamp User.put reads from a list of entries: i is the first
\* entry that carries one
Carries(entries, i) ==
    /\ i \in 1 .. Len(entries)
    /\ entries[i].has
    /\ \A j \in 1 .. (i - 1) : ~entries[j].has
CarriesNone(entries) == \A i \in 1 .. Len(entries) : ~entries[i].has

\* this step ends the set-pixel request of c for r
PutEnds(c, r) ==
    /\ Request(c, r, "set_pixel") \in requests
    /\ Request(c, r, "set_pixel") \notin requests'

\* this step is what the response a to the set-pixel request of c for r
\* brings about
Answered(c, r, a) ==
    /\ PutEnds(c, r)
    /\ LET e == UserPut(heap[r], a, now)
       IN  heap'[r] = e.user /\ ret'[c] = PutCall(e.out, PoolPutResult(e.out))

IsUnauthorized(out, refreshable) ==
    /\ out.kind = "raise"
    /\ out.exc = "UnauthorizedError"
    /\ out.refreshable = refreshable

\* C1: whenever Pool.put issues a placement request, it is for a user of
\* the pool whose cooldown is <= 0 at that time and before which, in
\* collection order, no user has a cooldown <= 0.
C1_FirstEligibleSelected ==
    [][\A c \in Callers, r \in Refs :
          (Request(c, r, "set_pixel") \in requests' \ requests) =>
              \E i \in 1 .. Len(users) :
                  /\ users[i] = r
                  /\ Eligible(heap[r], now)
                  /\ \A j \in 1 .. (i - 1) : ~Eligible(heap[users[j]], now)]_vars

\* C1 witness: a request is in flight for the first user, which is
\* eligible, while the second user is eligible with a smaller cooldown
C1_Witness ==
    /\ Len(users) >= 2
    /\ \E c \in Callers : Request(c, users[1], "set_pixel") \in requests
    /\ Eligible(heap[users[1]], now)
    /\ Eligible(heap[users[2]], now)
    /\ Less(Cooldown(heap[users[2]], now), Cooldown(heap[users[1]], now))


\* the timestamp T is the one User.put reads from the response a
Decides(a, T) ==
    \/ \E i \in 1 .. Len(a.data) : Carries(a.data, i) /\ a.data[i].ts = T
    \/ /\ CarriesNone(a.data)
       /\ \E i \in 1 .. Len(a.errors) : Carries(a.errors, i) /\ a.errors[i].ts = T

\* the instants at which eligibility is asked about after time t
LaterTimes(t) == {t + k * (31 * 86400 + 1) : k \in 0 .. 2}

\* the user object v is the user object u but for its next field
SameButNext(u, v) ==
    /\ v.id = u.id
    /\ v.name = u.name
    /\ v.token = u.token
    /\ v.refresh = u.refresh

\* C2: in the state right after a pooled account has become DEAD (its
\* placement raised the non-refreshable unauthorized failure, or it raised
\* the refreshable one and the account has no refresh token), the account is
\* not counted by anyReady / readyCount, is not what best returns and is not
\* what Pool.put would select.
C2_DeadExcluded ==
    [][\A c \in Callers, r \in Refs :
          (/\ PutEnds(c, r)
           /\ r \in Range(users')
           /\ \/ IsUnauthorized(ret'[c].user, FALSE)
              \/ /\ IsUnauthorized(ret'[c].user, TRUE)
                 /\ heap'[r].refresh \in {None, "null"})
          => /\ ~Eligible(heap'[r], now')
             /\ \A ts \in ClockReads(now', 2 * Len(users')) :
                   users'[PoolBest(PoolUsers', ts)] # r
             /\ users'[FirstEligible(PoolUsers', now')] # r]_vars

\* C3: when the timestamp User.put reads from a response without the
\* UNAUTHORIZED shape is more than 31 days ahead, the call raises
\* UnauthorizedError(refreshable=False), and afterwards either next is what
\* it was before the call or the account is eligible at no later time.
C3_EscalationExcludes ==
    [][\A c \in Callers, r \in Refs :
          PutEnds(c, r) =>
              \A a \in Answers(now) :
                  (/\ ~a.unauthorized
                   /\ Answered(c, r, a)
                   /\ \E T \in Timestamps(now) : Decides(a, T) /\ MoreThan31Days(T, now))
                  => /\ IsUnauthorized(ret'[c].user, FALSE)
                     /\ \/ heap'[r].next = heap[r].next
                        \/ \A t \in LaterTimes(now) : ~Eligible(heap'[r], t)]_vars

\* C4 as claimed: whenever User.put raises on a response that carries a
\* timestamp (the UNAUTHORIZED shape or the over-31-days escalation), next
\* has been set from that timestamp.
C4_CooldownRecordedBeforeRaise ==
    [][\A c \in Callers, r \in Refs :
          PutEnds(c, r) =>
              \A a \in Answers(now) : \A T \in Timestamps(now) :
                  (/\ ret'[c].user.kind = "raise"
                   /\ Decides(a, T)
                   /\ Answered(c, r, a))
                  => IsSecondsOf(heap'[r].next, T)]_vars

\* C4 as amended: on the over-31-days escalation next has been set from the
\* timestamp when UnauthorizedError(refreshable=False) is raised; on the
\* UNAUTHORIZED shape UnauthorizedError(refreshable=True) is raised and the
\* account is as it was, whatever timestamps the response carries.
C4_RecordedOnEscalationOnly ==
    [][\A c \in Callers, r \in Refs :
          PutEnds(c, r) =>
              \A a \in Answers(now) :
                  Answered(c, r, a) =>
                      /\ a.unauthorized =>
                            /\ IsUnauthorized(ret'[c].user, TRUE)
                            /\ heap'[r] = heap[r]
                      /\ \A T \in Timestamps(now) :
                            (~a.unauthorized /\ Decides(a, T) /\ MoreThan31Days(T, now))
                            => /\ IsUnauthorized(ret'[c].user, FALSE)
                               /\ IsSecondsOf(heap'[r].next, T)]_vars

\* C4 witness: a placement has raised the non-refreshable failure and an
\* account holds a cooldown more than 31 days ahead
C4_Witness ==
    /\ \E c \in Callers : ret[c].op = "Pool.put" /\ IsUnauthorized(ret[c].user, FALSE)
    /\ \E i \in 1 .. Len(users) :
          LET n == heap[users[i]].next
          IN  n.t = "num" /\ (n.s - now > 31 * 86400 \/ (n.s - now = 31 * 86400 /\ n.f > 0))

\* C5: whenever the response has the UNAUTHORIZED shape, User.put raises
\* UnauthorizedError(refreshable=True) and Pool.put raises it too.
C5_UnauthorizedPropagates ==
    [][\A c \in Callers, r \in Refs :
          PutEnds(c, r) =>
              \A a \in Answers(now) :
                  (a.unauthorized /\ Answered(c, r, a))
                  => /\ IsUnauthorized(ret'[c].user, TRUE)
                     /\ IsUnauthorized(ret'[c].pool, TRUE)]_vars

\* C5 witness: a Pool.put has raised the refreshable unauthorized failure
C5_Witness ==
    \E c \in Callers : ret[c].op = "Pool.put" /\ IsUnauthorized(ret[c].pool, TRUE)

\* C6: refresh_token on an account whose refresh token is None or "null"
\* raises the no-refresh-token error, sends no request and leaves every
\* account as it was.
C6_NoTokenNoRefresh ==
    [][\A c \in Callers, r \in Refs :
          (RefreshTokenCall(c, r) /\ heap[r].refresh \in {None, "null"})
          => /\ ret'[c].op = "refresh_token"
             /\ ret'[c].out.kind = "raise"
             /\ ret'[c].out.exc = "UnauthorizedError"
             /\ ret'[c].out.message = "No refresh token"
             /\ requests' = requests
             /\ pc'[c] = "idle"
             /\ heap' = heap]_vars

\* C6 witness: a refresh has failed for want of a refresh token, on an
\* account that holds the "null" sentinel
C6_Witness ==
    /\ \E c \in Callers :
          /\ ret[c].op = "refresh_token"
          /\ ret[c].out.kind = "raise"
          /\ ret[c].out.exc = "UnauthorizedError"
          /\ ret[c].out.message = "No refresh token"
    /\ users # <<>>
    /\ \A i \in 1 .. Len(users) : heap[users[i]].refresh = "null"

\* C7: the failure refresh_token raises when no refresh token is on file
\* carries refreshable = False.
C7_NoTokenNotRefreshable ==
    \A c \in Callers :
        (/\ ret[c].op = "refresh_token"
         /\ ret[c].out.kind = "raise"
         /\ ret[c].out.exc = "UnauthorizedError"
         /\ ret[c].out.message = "No refresh token")
        => ret[c].out.refreshable = FALSE

\* placement requests in flight
InFlightPuts == {q \in requests : q.kind = "set_pixel"}

\* C8: every placement request in flight belongs to a Pool.put call that
\* has not ended, and no call has two; so when at most one call is under
\* way, at most one placement request is in flight.
C8_OneRequestPerCall ==
    /\ \A q \in InFlightPuts : pc[q.caller] = "put"
    /\ \A q1, q2 \in InFlightPuts : q1.caller = q2.caller => q1 = q2
    /\ Cardinality({c \in Callers : pc[c] # "idle"}) <= 1
          => Cardinality(InFlightPuts) <= 1

\* C8 witness: two callers have a placement request in flight from the same
\* account, which is the first eligible one
C8_Witness ==
    \E q1, q2 \in InFlightPuts :
        /\ q1.caller # q2.caller
        /\ q1.user = q2.user
        /\ users # <<>>
        /\ q1.user = users[1]
        /\ Eligible(heap[users[1]], now)

\* C9: on a response without the UNAUTHORIZED shape, a timestamp T at most
\* 31 days ahead read from the data entries sets next to T / 1000 and
\* User.put returns True; read from the errors entries (the data entries
\* carrying none) it sets next to T / 1000 and User.put returns False; no
\* other field of any account changes.
C9_CooldownCarrier ==
    [][\A c \in Callers, r \in Refs :
          PutEnds(c, r) =>
              \A a \in Answers(now) :
                  (~a.unauthorized /\ Answered(c, r, a)) =>
                      /\ \A i \in 1 .. Len(a.data) :
                            (Carries(a.data, i) /\ ~MoreThan31Days(a.data[i].ts, now))
                            => /\ IsSecondsOf(heap'[r].next, a.data[i].ts)
                               /\ ret'[c].user = [kind |-> "return", value |-> "True"]
                      /\ \A i \in 1 .. Len(a.errors) :
                            (/\ CarriesNone(a.data)
                             /\ Carries(a.errors, i)
                             /\ ~MoreThan31Days(a.errors[i].ts, now))
                            => /\ IsSecondsOf(heap'[r].next, a.errors[i].ts)
                               /\ ret'[c].user = [kind |-> "return", value |-> "False"]
                      /\ SameButNext(heap[r], heap'[r])
                      /\ \A q \in Refs \ {r} : heap'[q] = heap[q]]_vars

\* C9 witness: User.put has returned False and the account's cooldown is
\* half a second ahead
C9_Witness ==
    /\ \E c \in Callers :
          ret[c].op = "Pool.put" /\ ret[c].user = [kind |-> "return", value |-> "False"]
    /\ \E i \in 1 .. Len(users) :
          heap[users[i]].next = [t |-> "num", s |-> now, f |-> 500]

\* C10: when no account of the pool has a cooldown <= 0, Pool.put returns
\* False, sends no request and changes no account, nor the pool's list, nor
\* the stored document.
C10_NoneEligible ==
    [][\A c \in Callers, color \in Colors :
          (/\ PoolPutCall(c, color)
           /\ \A i \in 1 .. Len(users) : ~Eligible(heap[users[i]], now))
          => /\ ret'[c].op = "Pool.put"
             /\ ret'[c].pool = [kind |-> "return", value |-> "False"]
             /\ requests' = requests
             /\ heap' = heap
             /\ users' = users
             /\ disk' = disk]_vars

\* C10 witness: Pool.put has returned False on a pool that is not empty
C10_Witness ==
    /\ users # <<>>
    /\ \E c \in Callers :
          /\ ret[c].op = "Pool.put"
          /\ ret[c].pool = [kind |-> "return", value |-> "False"]
          /\ ret[c].user = [kind |-> "not called"]

\* the accounts of the pool with cooldownRemaining() <= 0 now
EligibleNow == {i \in 1 .. Len(users) : Eligible(heap[users[i]], now)}

\* C11: Pool.any returns True iff some account of the pool has a cooldown
\* <= 0, Pool.ready returns the number of such accounts, which counts every
\* account without a recorded next, and Pool.any holds iff Pool.ready > 0.
C11_AnyAndReady ==
    [][\A c \in Callers :
          /\ PoolAnyCall(c) =>
                /\ ret'[c].op = "Pool.any"
                /\ (ret'[c].out = [kind |-> "return", value |-> "True"]) <=> (EligibleNow # {})
                /\ (ret'[c].out = [kind |-> "return", value |-> "False"]) <=> (EligibleNow = {})
          /\ PoolReadyCall(c) =>
                /\ ret'[c].op = "Pool.ready"
                /\ ret'[c].out.count = Cardinality(EligibleNow)
                /\ {i \in 1 .. Len(users) : heap[users[i]].next = NoneNum} \subseteq EligibleNow
                /\ (ret'[c].out.count > 0) <=> PoolAny(PoolUsers, now)]_vars

\* C11 witness: Pool.ready has returned 2 on a pool of three accounts with
\* cooldowns of -5, 10 and 0 seconds
C11_Witness ==
    /\ Len(users) = 3
    /\ {Cooldown(heap[users[i]], now) : i \in 1 .. Len(users)}
           = {[t |-> "num", s |-> 0 - 5, f |-> 0], [t |-> "num", s |-> 10, f |-> 0],
              [t |-> "num", s |-> 0, f |-> 0]}
    /\ \E c \in Callers : ret[c].op = "Pool.ready" /\ ret[c].out.count = 2

\* a has a smaller cooldownRemaining() than b
SoonerThan(a, b) ==
    LET na == IF a.next.t = "num" THEN a.next ELSE [s |-> 0, f |-> 0]
        nb == IF b.next.t = "num" THEN b.next ELSE [s |-> 0, f |-> 0]
    IN  na.s < nb.s \/ (na.s = nb.s /\ na.f < nb.f)

\* C12: Pool.best returns None exactly when the pool is empty, and otherwise
\* an account of the pool than which none has a smaller cooldown, each
\* account before it in collection order having a larger one.
C12_BestIsFirstMinimal ==
    [][\A c \in Callers :
          PoolBestCall(c) =>
              LET b == ret'[c].out.index
              IN  /\ (b = 0) <=> (users = <<>>)
                  /\ b # 0 =>
                        /\ b \in 1 .. Len(users)
                        /\ \A j \in 1 .. Len(users) :
                              ~SoonerThan(heap[users[j]], heap[users[b]])
                        /\ \A j \in 1 .. (b - 1) :
                              SoonerThan(heap[users[b]], heap[users[j]])]_vars

\* the pool's list is what the document at path was written from
SavedAt(path) ==
    /\ disk[path] # NoFile
    /\ Len(disk[path]) = Len(users)
    /\ \A i \in 1 .. Len(users) :
          LET u == heap[users[i]]
              el == disk[path][i]
          IN  /\ el.id = u.id /\ el.name = u.name /\ el.token = u.token
              /\ el.refresh = (IF u.refresh = "" THEN None ELSE u.refresh)
              /\ el.next = (IF u.next = [t |-> "num", s |-> 0, f |-> 0]
                            THEN NoneNum ELSE u.next)

\* C13 as claimed: loading from a path the pool's list has been saved at
\* gives a list of the same length and order, each account with the id,
\* name, token, refresh and next of the original, but for a refresh of "null"
\* which becomes None.
C13_SaveLoadRoundTrip ==
    [][\A path \in Paths :
          (SavedAt(path) /\ Construct(path)) =>
              /\ Len(users') = Len(users)
              /\ \A i \in 1 .. Len(users) :
                    LET u == heap[users[i]]
                        v == heap'[users'[i]]
                    IN  /\ v.id = u.id /\ v.name = u.name /\ v.token = u.token
                        /\ v.refresh = (IF u.refresh = "null" THEN None ELSE u.refresh)
                        /\ v.next = u.next]_vars

\* C13 as amended: the same, but an empty refresh also becomes None, and so
\* does a next of 0.
C13_RoundTripNormalizesFalsy ==
    [][\A path \in Paths :
          (SavedAt(path) /\ Construct(path)) =>
              /\ Len(users') = Len(users)
              /\ \A i \in 1 .. Len(users) :
                    LET u == heap[users[i]]
                        v == heap'[users'[i]]
                    IN  /\ v.id = u.id /\ v.name = u.name /\ v.token = u.token
                        /\ v.refresh = (IF u.refresh \in {"null", ""} THEN None ELSE u.refresh)
                        /\ v.next = (IF u.next = [t |-> "num", s |-> 0, f |-> 0]
                                     THEN NoneNum ELSE u.next)]_vars

\* C13 witness: a pool of two accounts loaded from the document at its
\* storage path, where the first was stored with the refresh token "null"
\* and the second with a next
C13_Witness ==
    /\ Len(users) = 2
    /\ disk[storage] # NoFile
    /\ Len(disk[storage]) = 2
    /\ disk[storage][1].refresh = "null" /\ heap[users[1]].refresh = None
    /\ disk[storage][2].next.t = "num" /\ heap[users[2]].next = disk[storage][2].next
    /\ \A i \in 1 .. 2 : heap[users[i]].id = disk[storage][i].id

\* C14: no two accounts of the pool have the same id.
C14_UniqueIds ==
    \A i, j \in 1 .. Len(users) :
        i # j => heap[users[i]].id # heap[users[j]].id

\* C15: remove_user(n) leaves in the pool the accounts whose name is not n,
\* each as it was and in the order they had, and the document at the default
\* path is then that of the resulting list.
C15_RemoveAllByName ==
    [][\A n \in Names :
          RemoveUser(n) =>
              LET kept == {i \in 1 .. Len(users) : heap[users[i]].name # n}
              IN  /\ Len(users') = Cardinality(kept)
                  /\ \A i \in 1 .. Len(users') : heap'[users'[i]].name # n
                  /\ \A i \in kept :
                        \E k \in 1 .. Len(users') :
                            /\ users'[k] = users[i]
                            /\ heap'[users'[k]] = heap[users[i]]
                            /\ k = Cardinality({j \in kept : j <= i})
                  /\ SavedAt(DefaultStorage)']_vars

\* C15 witness: the pool holds only its second object, the account named
\* u/bob that a document saved earlier has between two accounts named
\* u/ann, and has been saved since at the default path
C15_Witness ==
    /\ disk["alt.json"] # NoFile
    /\ Len(disk["alt.json"]) = 3
    /\ disk["alt.json"][1].name = "u/ann"
    /\ disk["alt.json"][2].name = "u/bob"
    /\ disk["alt.json"][3].name = "u/ann"
    /\ users = <<2>>
    /\ heap[users[1]].name = "u/bob"
    /\ storage = DefaultStorage
    /\ SavedAt(DefaultStorage)
    /\ Len(disk["alt.json"]) > Len(disk[DefaultStorage])

\* C18: after add_user or remove_user, the document at the path the pool
\* was loaded from is that of the pool's list.
C18_SavedWhereLoaded ==
    [][((\E u \in StoreUsers : AddUser(u)) \/ (\E n \in Names : RemoveUser(n)))
          => SavedAt(storage)']_vars

\* the palette entries that have an RGB mapping, and the squared distance of
\* such an entry v to (r, g, b)
Mapped == {v \in RedditColor : v \in DOMAIN ColorMap /\ Len(ColorMap[v]) = 3}
SquaredDistance(v, r, g, b) ==
    (ColorMap[v][1] - r) ^ 2 + (ColorMap[v][2] - g) ^ 2 + (ColorMap[v][3] - b) ^ 2
Position(v) == CHOOSE i \in 1 .. Len(RedditColorSeq) : RedditColorSeq[i] = v

\* C16: closest(r, g, b) on channels in 0 .. 255 returns an entry with an
\* RGB mapping than which no such entry is nearer to (r, g, b), and before
\* which no such entry is as near; closest(0, 0, 0) and closest(1, 1, 1)
\* return BLACK (27), closest(255, 255, 255) returns WHITE (31).
C16_ClosestIsNearest ==
    [][\A c \in Callers :
          (/\ ret'[c].op = "closest"
           /\ \A i \in 1 .. 3 : ret'[c].args[i] \in 0 .. 255)
          => LET r == ret'[c].args[1]
                 g == ret'[c].args[2]
                 b == ret'[c].args[3]
             IN  /\ ret'[c].out.kind = "return"
                 /\ ret'[c].out.value \in Mapped
                 /\ \A v \in Mapped :
                       /\ SquaredDistance(v, r, g, b)
                             >= SquaredDistance(ret'[c].out.value, r, g, b)
                       /\ Position(v) < Position(ret'[c].out.value)
                             => SquaredDistance(v, r, g, b)
                                   > SquaredDistance(ret'[c].out.value, r, g, b)
                 /\ <<r, g, b>> \in {<<0, 0, 0>>, <<1, 1, 1>>} => ret'[c].out.value = 27
                 /\ <<r, g, b>> = <<255, 255, 255>> => ret'[c].out.value = 31]_vars

\* C17: on channels in 0 .. 255, pack(r, g, b) is r + 256 * g + 65536 * b,
\* and unpack of it is (r, g, b).
C17_PackUnpackRoundTrip ==
    [][\A c \in Callers :
          /\ (/\ ret'[c].op = "pack"
              /\ \A i \in 1 .. 3 : ret'[c].args[i] \in 0 .. 255)
             => ret'[c].out.packed
                   = ret'[c].args[1] + 256 * ret'[c].args[2] + 65536 * ret'[c].args[3]
          /\ (/\ CallUnpack(c)
              /\ \A i \in 1 .. 3 : ret[c].args[i] \in 0 .. 255)
             => /\ ret'[c].op = "unpack"
                /\ ret'[c].out.rgb = ret[c].args]_vars

\* C17 witness: unpack has returned (255, 1, 128) from the packed value of
\* red 255, green 1 and blue 128
C17_Witness ==
    \E c \in Callers :
        /\ ret[c].op = "unpack"
        /\ ret[c].args = <<255 + 256 * 1 + 65536 * 128>>
        /\ ret[c].out.rgb = <<255, 1, 128>>

\* C19: Pool.put returns True exactly when User.put was called and returned,
\* whatever it returned (True, False or None), and False exactly when
\* User.put was not called.
C19_TrueMeansSelected ==
    \A c \in Callers :
        ret[c].op = "Pool.put" =>
            /\ ret[c].user.kind = "return"
                  <=> ret[c].pool = [kind |-> "return", value |-> "True"]
            /\ ret[c].user.kind = "not called"
                  <=> ret[c].pool = [kind |-> "return", value |-> "False"]

\* C19 witness: Pool.put has returned True where User.put returned False
\* or None
C19_Witness ==
    \E c \in Callers :
        /\ ret[c].op = "Pool.put"
        /\ ret[c].pool = [kind |-> "return", value |-> "True"]
        /\ ret[c].user \in {[kind |-> "return", value |-> "False"],
                             [kind |-> "return", value |-> "None"]}

\* C20: the step in which Pool.put is called sends at most one placement
\* request, for the caller, and changes no account; the step in which the
\* response to the request for r arrives sends none and changes no account
\* but r; neither changes the pool's list or the stored documents.
C20_OnlySelectedChanges ==
    [][\A c \in Callers :
          /\ (\E color \in Colors : PoolPutCall(c, color)) =>
                /\ Cardinality(requests' \ requests) <= 1
                /\ \A q \in requests' \ requests :
                      q.caller = c /\ q.kind = "set_pixel" /\ q.user \in Range(users)
                /\ requests \subseteq requests'
                /\ heap' = heap
                /\ users' = users
                /\ disk' = disk
          /\ \A r \in Refs :
                PutEnds(c, r) =>
                    /\ requests' \subseteq requests
                    /\ \A q \in Range(users) \ {r} : heap'[q] = heap[q]
                    /\ users' = users
                    /\ disk' = disk]_vars

\* C20 witness: a Pool.put has raised the non-refreshable failure; the first
\* account of the pool has a cooldown recorded and the second, as eligible
\* as it was, has none
C20_Witness ==
    /\ Len(users) = 2
    /\ heap[users[1]].next.t = "num"
    /\ heap[users[2]].next.t = "none"
    /\ requests = {}
    /\ \E c \in Callers : ret[c].op = "Pool.put" /\ IsUnauthorized(ret[c].pool, FALSE)

=============================================================================
